---- MODULE Spec2Model ----
(***************************************************************************)
(* Model of backend/scripts/convert_stl_to_fbx.py: a script run inside the *)
(* host 3D application.  It reads two paths from the argument vector,      *)
(* clears the scene (select all, delete selected), imports an STL file,    *)
(* exports the scene as GLB and reports the size of the written file.      *)
(*                                                                         *)
(* The host application and the file system are the environment.  Each     *)
(* host operator either returns or raises; what it does is fixed by the    *)
(* environment (variable host) for the life of the model, so that the      *)
(* importer and exporter are deterministic.  The script never reads the    *)
(* value a host operator returns.                                          *)
(***************************************************************************)
EXTENDS Integers, Sequences, FiniteSets, TLC

VARIABLES
    sysargv,    \* sys.argv, the argument vector of the process
    argv,       \* the script's argv after line 6
    stl_path,   \* line 8
    glb_path,   \* line 9
    pc,         \* position of the script
    raised,     \* the call whose exception ended the run, or NoError
    scene,      \* the host's scene: a set of objects
    files,      \* the file system: path -> file
    out,        \* lines printed to standard output in this run
    calls,      \* host operators invoked in this run, in order
    writes,     \* number of file-system writes made in this run
    host,       \* environment: the host operator that misbehaves, if any
    run,        \* "first" or "second" invocation of the script
    first       \* what the first invocation left: destination file and output

vars == <<sysargv, argv, stl_path, glb_path, pc, raised, scene, files, out,
          calls, writes, host, run, first>>

-----------------------------------------------------------------------------
(* Bounds of the model.                                                    *)

\* longest argument vector
MaxArgs == 4
\* sizes 0..MaxSmallBytes are all tried as sizes of the output file
MaxSmallBytes == 5400
\* distance explored around each of the larger sizes
MaxDelta == 3
\* bytes of an exported file that holds no object
GlbOverhead == 2622
\* bytes each exported object adds
MeshBytes == 2621
\* bytes of a file found at a path before the run
StaleBytes == 131072

\* words of the argument vector; every word can also be a path
Tokens == {"--", "in.stl", "out.glb"}
Paths == Tokens

Unset == "<unset>"
NoError == "none"

\* the geometry an object carries: prior objects, or a mesh read from a path
Geoms == {"Cube", "Ref"} \cup Paths

Cube == [id |-> 1, geom |-> "Cube", hide |-> FALSE, select |-> FALSE]
Ref == [id |-> 2, geom |-> "Ref", hide |-> TRUE, select |-> FALSE]
\* scenes the host may hold when the script starts
InitialScenes == SUBSET {Cube, Ref}

NoObjects == [g \in Geoms |-> 0]
NoFile == [exists |-> FALSE, objs |-> NoObjects, bytes |-> 0]
StaleFile == [exists |-> TRUE, objs |-> NoObjects, bytes |-> StaleBytes]

\* what each host operator can do; "ok" everywhere is the working host
HostFaults == {"none", "select_all raises", "delete raises",
               "stl_import raises", "stl_import cancelled",
               "gltf raises", "gltf writes nothing"}

-----------------------------------------------------------------------------
(* Pure helpers.                                                           *)

RECURSIVE IndexOf(_, _, _)
\* list.index: position of the first occurrence of x at or after i, 0 if none
IndexOf(s, x, i) ==
    IF i > Len(s) THEN 0
    ELSE IF s[i] = x THEN i
    ELSE IndexOf(s, x, i + 1)

RECURSIVE LastIndexOf(_, _, _)
LastIndexOf(s, x, i) ==
    IF i < 1 THEN 0
    ELSE IF s[i] = x THEN i
    ELSE LastIndexOf(s, x, i - 1)

\* a slip: splits at the last "--" instead of the first
AfterSeparator_last(s) == SubSeq(s, LastIndexOf(s, "--", Len(s)) + 1, Len(s))

\* argv[argv.index("--") + 1:]
AfterSeparator(s) == SubSeq(s, IndexOf(s, "--", 1) + 1, Len(s))

MiB == 1024 * 1024

\* a slip: the value is cut to two decimals instead of rounded
Hundredths_truncated(bytes) == (bytes * 100) \div MiB

\* '{x:.2f}' of x = bytes / MiB, in hundredths: the quotient is an exact binary
\* fraction, and the format rounds it to the nearest hundredth, ties to even
Hundredths(bytes) ==
    LET n == bytes * 100
        q == n \div MiB
        r == n % MiB
    IN  IF 2 * r > MiB \/ (2 * r = MiB /\ q % 2 = 1) THEN q + 1 ELSE q

\* the text of '{x:.2f}'
FormatMB(bytes) ==
    LET h == Hundredths(bytes)
    IN  ToString(h \div 100) \o "." \o ToString((h % 100) \div 10)
            \o ToString(h % 10)

SuccessLine(src, dst) == "Successfully converted " \o src \o " to " \o dst
SizeLine(bytes) == "GLB file size: " \o FormatMB(bytes) \o " MB"
NotFoundLine == "Output file not found!"

\* what the exporter serialises: every object of the scene (no selection or
\* visibility filter is passed), as the number of objects of each geometry
Encode(s) == [g \in Geoms |-> Cardinality({o \in s : o.geom = g})]

GlbFile(s) ==
    [exists |-> TRUE, objs |-> Encode(s),
     bytes |-> GlbOverhead + MeshBytes * Cardinality(s)]

RECURSIVE MaxId(_)
MaxId(s) ==
    IF s = {} THEN 0
    ELSE LET o == CHOOSE x \in s : TRUE
             m == MaxId(s \ {o})
         IN  IF o.id > m THEN o.id ELSE m

\* the object the importer creates from the file at path p
Mesh(s, p) == [id |-> MaxId(s) + 1, geom |-> p, hide |-> FALSE, select |-> TRUE]

-----------------------------------------------------------------------------
(* The script.                                                             *)

Init ==
    /\ sysargv \in UNION {[1..n -> Tokens] : n \in 0..MaxArgs}
    /\ argv = <<>>
    /\ stl_path = Unset
    /\ glb_path = Unset
    /\ pc = "argv"
    /\ raised = NoError
    /\ scene \in InitialScenes
    /\ files \in {[p \in Paths |-> NoFile]}
                 \cup {[p \in Paths |-> IF p = q THEN StaleFile ELSE NoFile] :
                         q \in Paths}
    /\ out = <<>>
    /\ calls = <<>>
    /\ writes = 0
    /\ host \in HostFaults
    /\ run = "first"
    /\ first = [dest |-> NoFile, out |-> <<>>, done |-> FALSE]

Fatal(what) ==
    /\ pc' = "fatal"
    /\ raised' = what

\* lines 5-9
ParseArgs ==
    /\ pc = "argv"
    /\ IF IndexOf(sysargv, "--", 1) = 0
       THEN /\ Fatal("ValueError")
            /\ UNCHANGED <<argv, stl_path, glb_path>>
       ELSE /\ argv' = AfterSeparator(sysargv)
            /\ IF Len(argv') < 1
               THEN /\ Fatal("IndexError")
                    /\ UNCHANGED <<stl_path, glb_path>>
               ELSE /\ stl_path' = argv'[1]
                    /\ IF Len(argv') < 2
                       THEN /\ Fatal("IndexError")
                            /\ UNCHANGED glb_path
                       ELSE /\ glb_path' = argv'[2]
                            /\ pc' = "select_all"
                            /\ UNCHANGED raised
    /\ UNCHANGED <<sysargv, scene, files, out, calls, writes, host, run, first>>

\* line 12: the operator changes the selection of the visible objects of the
\* scene; a hidden object is not reached and keeps its selection state
SelectAll ==
    /\ pc = "select_all"
    /\ calls' = Append(calls, <<"select_all">>)
    /\ IF host = "select_all raises"
       THEN /\ Fatal("select_all")
            /\ UNCHANGED scene
       ELSE /\ scene' = {IF o.hide THEN o ELSE [o EXCEPT !.select = TRUE] :
                            o \in scene}
            /\ pc' = "delete"
            /\ UNCHANGED raised
    /\ UNCHANGED <<sysargv, argv, stl_path, glb_path, files, out, writes, host,
                   run, first>>

\* line 13: deletes the selected objects
Delete ==
    /\ pc = "delete"
    /\ calls' = Append(calls, <<"delete">>)
    /\ IF host = "delete raises"
       THEN /\ Fatal("delete")
            /\ UNCHANGED scene
       ELSE /\ scene' = {o \in scene : ~o.select}
            /\ pc' = "stl_import"
            /\ UNCHANGED raised
    /\ UNCHANGED <<sysargv, argv, stl_path, glb_path, files, out, writes, host,
                   run, first>>

\* a slip: the import is issued a second time
StlImport_twice ==
    /\ pc = "stl_import"
    /\ calls' = calls \o <<<<"stl_import", stl_path>>, <<"stl_import", stl_path>>>>
    /\ IF host = "stl_import raises"
       THEN /\ Fatal("stl_import")
            /\ UNCHANGED scene
       ELSE /\ scene' = IF host = "stl_import cancelled" THEN scene
                        ELSE LET s1 == scene \cup {Mesh(scene, stl_path)}
                             IN  s1 \cup {Mesh(s1, stl_path)}
            /\ pc' = "gltf"
            /\ UNCHANGED raised
    /\ UNCHANGED <<sysargv, argv, stl_path, glb_path, files, out, writes, host,
                   run, first>>

\* a slip: the importer's exception is caught and the script goes on
StlImport_swallow ==
    /\ pc = "stl_import"
    /\ calls' = Append(calls, <<"stl_import", stl_path>>)
    /\ scene' = IF host \in {"stl_import raises", "stl_import cancelled"}
                THEN scene
                ELSE scene \cup {Mesh(scene, stl_path)}
    /\ pc' = "gltf"
    /\ UNCHANGED <<sysargv, argv, stl_path, glb_path, raised, files, out, writes,
                   host, run, first>>

\* line 16
StlImport ==
    /\ pc = "stl_import"
    /\ calls' = Append(calls, <<"stl_import", stl_path>>)
    /\ IF host = "stl_import raises"
       THEN /\ Fatal("stl_import")
            /\ UNCHANGED scene
       ELSE /\ scene' = IF host = "stl_import cancelled" THEN scene
                        ELSE scene \cup {Mesh(scene, stl_path)}
            /\ pc' = "gltf"
            /\ UNCHANGED raised
    /\ UNCHANGED <<sysargv, argv, stl_path, glb_path, files, out, writes, host,
                   run, first>>

\* a slip: the exporter's exception is caught and the script goes on
GltfExport_swallow ==
    /\ pc = "gltf"
    /\ calls' = Append(calls, <<"gltf", glb_path>>)
    /\ IF host \in {"gltf raises", "gltf writes nothing"}
       THEN UNCHANGED <<files, writes>>
       ELSE /\ files' = [files EXCEPT ![glb_path] = GlbFile(scene)]
            /\ writes' = writes + 1
    /\ pc' = "print"
    /\ UNCHANGED <<sysargv, argv, stl_path, glb_path, raised, scene, out, host,
                   run, first>>

\* line 19
GltfExport ==
    /\ pc = "gltf"
    /\ calls' = Append(calls, <<"gltf", glb_path>>)
    /\ IF host = "gltf raises"
       THEN /\ Fatal("gltf")
            /\ UNCHANGED <<files, writes>>
       ELSE /\ IF host = "gltf writes nothing"
               THEN UNCHANGED <<files, writes>>
               ELSE /\ files' = [files EXCEPT ![glb_path] = GlbFile(scene)]
                    /\ writes' = writes + 1
            /\ pc' = "print"
            /\ UNCHANGED raised
    /\ UNCHANGED <<sysargv, argv, stl_path, glb_path, scene, out, host, run,
                   first>>

\* a slip: the success line is printed only when the output exists
PrintSuccess_ifexists ==
    /\ pc = "print"
    /\ out' = IF files[glb_path].exists
              THEN Append(out, SuccessLine(stl_path, glb_path))
              ELSE out
    /\ pc' = "exists"
    /\ UNCHANGED <<sysargv, argv, stl_path, glb_path, raised, scene, files,
                   calls, writes, host, run, first>>

\* line 21
PrintSuccess ==
    /\ pc = "print"
    /\ out' = Append(out, SuccessLine(stl_path, glb_path))
    /\ pc' = "exists"
    /\ UNCHANGED <<sysargv, argv, stl_path, glb_path, raised, scene, files,
                   calls, writes, host, run, first>>

\* a slip: the size is read without the existence check, so a missing file
\* raises
ExistsCheck_unguarded ==
    /\ pc = "exists"
    /\ IF files[glb_path].exists
       THEN /\ out' = Append(out, SizeLine(files[glb_path].bytes))
            /\ pc' = "done"
            /\ UNCHANGED raised
       ELSE /\ Fatal("getsize")
            /\ UNCHANGED out
    /\ UNCHANGED <<sysargv, argv, stl_path, glb_path, scene, files,
                   calls, writes, host, run, first>>

\* lines 23-27, then the script ends
ExistsCheck ==
    /\ pc = "exists"
    /\ IF files[glb_path].exists
       THEN out' = Append(out, SizeLine(files[glb_path].bytes))
       ELSE out' = Append(out, NotFoundLine)
    /\ pc' = "done"
    /\ UNCHANGED <<sysargv, argv, stl_path, glb_path, raised, scene, files,
                   calls, writes, host, run, first>>

\* the script is invoked a second time with the same arguments, in the same
\* process (the scene is kept) or in a new one (any scene), after the
\* destination may have been removed or replaced
Rerun ==
    /\ run = "first"
    /\ pc \in {"done", "fatal"}
    /\ run' = "second"
    /\ first' = [dest |-> IF glb_path \in Paths THEN files[glb_path] ELSE NoFile,
                 out |-> out, done |-> pc = "done"]
    /\ scene' \in InitialScenes \cup {scene}
    /\ files' \in {files} \cup
                  (IF glb_path \in Paths
                   THEN {[files EXCEPT ![glb_path] = f] : f \in {NoFile, StaleFile}}
                   ELSE {})
    /\ argv' = <<>>
    /\ stl_path' = Unset
    /\ glb_path' = Unset
    /\ pc' = "argv"
    /\ raised' = NoError
    /\ out' = <<>>
    /\ calls' = <<>>
    /\ writes' = 0
    /\ UNCHANGED <<sysargv, host>>

Next ==
    \/ ParseArgs
    \/ SelectAll
    \/ Delete
    \/ StlImport
    \/ GltfExport
    \/ PrintSuccess
    \/ ExistsCheck
    \/ Rerun

Spec == Init /\ [][Next]_vars

-----------------------------------------------------------------------------
(* The size report alone: the script stands at the existence check (line   *)
(* 23) after an export that wrote a file of any of the sizes below.        *)

LargeSizes == {131072, 393216, 1048576, 2097152, 10485760}

SizeInputs ==
    (0..MaxSmallBytes) \cup
    {b + d : b \in LargeSizes, d \in (0 - MaxDelta)..MaxDelta}

InitSize ==
    /\ sysargv = <<"--", "in.stl", "out.glb">>
    /\ argv = <<"in.stl", "out.glb">>
    /\ stl_path = "in.stl"
    /\ glb_path = "out.glb"
    /\ pc = "exists"
    /\ raised = NoError
    /\ scene = {Mesh({}, "in.stl")}
    /\ \E b \in SizeInputs :
           files = [p \in Paths |->
                       IF p = "out.glb"
                       THEN [exists |-> TRUE, objs |-> Encode(scene), bytes |-> b]
                       ELSE NoFile]
    /\ out = <<SuccessLine("in.stl", "out.glb")>>
    /\ calls = <<<<"select_all">>, <<"delete">>, <<"stl_import", "in.stl">>,
                 <<"gltf", "out.glb">>>>
    /\ writes = 1
    /\ host = "none"
    /\ run = "first"
    /\ first = [dest |-> NoFile, out |-> <<>>, done |-> FALSE]

NextSize == ExistsCheck

SpecSize == InitSize /\ [][NextSize]_vars

-----------------------------------------------------------------------------
(* Properties.                                                             *)

\* the host operators of one run, in the order of the script
ExpectedCalls ==
    <<<<"select_all">>, <<"delete">>, <<"stl_import", stl_path>>,
      <<"gltf", glb_path>>>>

\* the export call has returned without raising
PastExport == Len(calls) = 4 /\ raised # "gltf"

\* C1: in every run the host operators invoked are a prefix of: clear (select
\* all, delete), import of the source path, export to the destination path;
\* each is invoked at most once, the import only after the clear has returned
\* and the export only after the import has returned.
C1_FixedOrder ==
    /\ \E n \in 0..4 : calls = SubSeq(ExpectedCalls, 1, n)
    /\ Len(calls) >= 2 => raised # "select_all"
    /\ Len(calls) >= 3 => raised # "delete"
    /\ Len(calls) >= 4 => raised # "stl_import"
    /\ pc = "stl_import" => Len(calls) = 2
    /\ pc = "gltf" => Len(calls) = 3

C1_Witness == pc = "done" /\ calls = ExpectedCalls

C3_MissingOutputReported ==
    PastExport =>
        /\ pc # "fatal"
        /\ raised = NoError
        /\ pc = "done" =>
            LET sizeLines == {i \in DOMAIN out :
                                 out[i] = SizeLine(files[glb_path].bytes)}
                notFound == {i \in DOMAIN out : out[i] = NotFoundLine}
            IN  IF files[glb_path].exists
                THEN Cardinality(sizeLines) = 1 /\ notFound = {}
                ELSE Cardinality(notFound) = 1 /\ sizeLines = {}

C3_Witness ==
    /\ pc = "done"
    /\ host = "gltf writes nothing"
    /\ ~files[glb_path].exists
    /\ out[Len(out)] = NotFoundLine

\* C4 (as claimed): whatever the scene holds when a conversion begins, it is
\* empty when the import step starts.
C4_SceneEmptyAtImport == pc = "stl_import" => scene = {}

\* what the clear does remove: every object left at the import step is hidden
VisibleObjectsCleared == pc = "stl_import" => \A o \in scene : o.hide

\* C5: when select_all, delete, the import or the export raises, the run ends
\* there as a fatal error: no later host operator is invoked, the failed one
\* is not invoked again, and nothing is printed.
C5_FailureAborts ==
    \A k \in 1..4 :
        LET op == ExpectedCalls[k][1]
        IN  (host = op \o " raises" /\ Len(calls) >= k) =>
                /\ pc = "fatal"
                /\ raised = op
                /\ calls = SubSeq(ExpectedCalls, 1, k)
                /\ out = <<>>
                /\ writes = 0

C5_Witness == pc = "fatal" /\ raised = "gltf" /\ Len(calls) = 4

\* the text of a number of hundredths, written out independently of FormatMB
TwoDecimals(h) ==
    ToString(h \div 100) \o "." \o
    (IF h % 100 < 10 THEN "0" \o ToString(h % 100) ELSE ToString(h % 100))

\* C7: the size line shows bytes / 1048576 to the nearest hundredth, with
\* two decimals and " MB"; 2,097,152 bytes give "2.00 MB", and every size
\* below 5,243 bytes gives "0.00 MB".
C7_SizeReport ==
    (pc = "done" /\ files[glb_path].exists) =>
        LET b == files[glb_path].bytes
            line == out[Len(out)]
            q == (100 * b) \div MiB
        IN  /\ \E h \in {q, q + 1} :
                  /\ line = "GLB file size: " \o TwoDecimals(h) \o " MB"
                  /\ 2 * (h * MiB - 100 * b) <= MiB
                  /\ 2 * (100 * b - h * MiB) <= MiB
            /\ b = 2097152 => line = "GLB file size: 2.00 MB"
            /\ b < 5243 => line = "GLB file size: 0.00 MB"
            /\ b = 5243 => line = "GLB file size: 0.01 MB"

C7_Witness ==
    /\ pc = "done"
    /\ files[glb_path].bytes = 2097152
    /\ out[Len(out)] = "GLB file size: 2.00 MB"

\* C8 (as claimed): with a working host, a second run with the same
\* arguments leaves the same destination contents and prints the same
\* lines as the first, whatever the scene and the destination held before
\* each run.
C8_Idempotent ==
    (run = "second" /\ pc = "done" /\ first.done /\ host = "none") =>
        /\ files[glb_path] = first.dest
        /\ out = first.out

\* C9: the success line is printed once the export has returned and before
\* the existence check, whether or not the destination exists; a run whose
\* destination is absent prints the success line and then the not-found line.
C9_SuccessBeforeCheck ==
    /\ pc = "exists" => out = <<SuccessLine(stl_path, glb_path)>>
    /\ (PastExport /\ pc # "print") =>
           Len(out) >= 1 /\ out[1] = SuccessLine(stl_path, glb_path)
    /\ (pc = "done" /\ ~files[glb_path].exists) =>
           out = <<SuccessLine(stl_path, glb_path), NotFoundLine>>

C9_Witness ==
    /\ pc = "done"
    /\ ~files[glb_path].exists
    /\ out = <<SuccessLine(stl_path, glb_path), NotFoundLine>>

\* the argument vector holds "--" with at least two words after its first
\* occurrence, at position i
SeparatorAt(i) ==
    /\ i \in 1..Len(sysargv)
    /\ sysargv[i] = "--"
    /\ \A j \in 1..(i - 1) : sysargv[j] # "--"
    /\ Len(sysargv) >= i + 2

\* C10: without "--", or with fewer than two words after its first
\* occurrence, the run fails before any host operator is invoked and before
\* anything is written or printed; otherwise the two words after the first
\* "--" are the source and the destination path, and further words change
\* nothing.
C10_ArgumentsFirst ==
    /\ (~\E i \in 1..Len(sysargv) : SeparatorAt(i)) =>
           /\ pc \in {"argv", "fatal"}
           /\ pc = "fatal" => raised \in {"ValueError", "IndexError"}
           /\ calls = <<>>
           /\ writes = 0
           /\ out = <<>>
    /\ \A i \in 1..Len(sysargv) :
           (SeparatorAt(i) /\ pc # "argv") =>
               /\ stl_path = sysargv[i + 1]
               /\ glb_path = sysargv[i + 2]
               /\ raised \notin {"ValueError", "IndexError"}

C10_Witness ==
    /\ pc = "fatal"
    /\ raised = "IndexError"
    /\ Len(argv) = 1
    /\ calls = <<>>

====
